---- MODULE Spec2Model ----
(***************************************************************************)
(* Model of the upload / evaluate orchestration of the FileUpload          *)
(* component (frontend/src/components/FileUpload.tsx).                     *)
(*                                                                         *)
(* React state is the set of variables below; every event handler and      *)
(* every continuation of the async function onProcess between two awaits  *)
(* is one atomic action (the state updates of a handler are batched and    *)
(* rendered before the next event is dispatched).                          *)
(*                                                                         *)
(* Optional values (File | null, txtPath?: string, ...) are sequences of   *)
(* length 0 (absent) or 1 (present).  File names are sequences of          *)
(* one-character strings.                                                  *)
(***************************************************************************)
EXTENDS Integers, Sequences, FiniteSets, TLC

VARIABLES rfp, proposal, errRfp, errProp, progress, isProcessing, message,
          result, runs, started, vFile, vOut, data, view

vars == <<rfp, proposal, errRfp, errProp, progress, isProcessing, message,
          result, runs, started, vFile, vOut, data, view>>

None == <<>>
Some(x) == <<x>>
\* x ?? y
Coalesce(x, y) == IF x # None THEN x[1] ELSE y

(***************************************************************************)
(* Bounds of the model.                                                    *)
(***************************************************************************)
\* number of runs (clicks on the start button that pass the guard) explored
MaxRuns == 2
\* byte count of an upload's request body, as its progress events report it
MaxTotal == 2
\* file sizes explored lie within SizeSlack bytes of MAX_BYTES (plus 0)
SizeSlack == 2
\* longest stem put in front of an extension to form a file name
MaxStem == 1

(***************************************************************************)
(* Constants of the program.                                               *)
(***************************************************************************)
ACCEPTED_EXT == << <<".", "p", "d", "f">>, <<".", "d", "o", "c", "x">> >>
MAX_BYTES == 20 * 1024 * 1024
GUIDE_PATH == "guide/guide_reference.txt"
RFP_OFFSET == 0
PROPOSAL_OFFSET == 40
EVAL_CHECKPOINT == 80
FULL_PROGRESS == 100

\* the user-visible texts (English renderings of the literals in the source)
MSG_NO_FILE == "no file selected"
MSG_BAD_FORMAT == "unsupported format (.pdf, .docx)"
MSG_TOO_LARGE == "file exceeds 20MB"
MSG_NOT_READY == "text conversion not yet complete, retry shortly"
MSG_ANALYZING == "analyzing..."
MSG_DONE == "analysis complete"
MSG_GENERIC_ERROR == "an error occurred while processing"

(***************************************************************************)
(* validate: String.prototype.toLowerCase / endsWith on names.             *)
(***************************************************************************)
LowerChar(c) ==
  CASE c = "P" -> "p" [] c = "D" -> "d" [] c = "F" -> "f"
    [] c = "O" -> "o" [] c = "C" -> "c" [] c = "X" -> "x"
    [] c = "A" -> "a" [] c = "T" -> "t"
    [] OTHER -> c

toLowerCase(s) == [i \in 1..Len(s) |-> LowerChar(s[i])]

endsWith(s, suffix) ==
  /\ Len(suffix) <= Len(s)
  /\ SubSeq(s, Len(s) - Len(suffix) + 1, Len(s)) = suffix

hasAcceptedExt(lower) ==
  \E k \in 1..Len(ACCEPTED_EXT) : endsWith(lower, ACCEPTED_EXT[k])

\* mutant: the size rule applied before the extension rule
validate_SizeFirst(file) ==
  IF file = None THEN MSG_NO_FILE
  ELSE IF file[1].size > MAX_BYTES THEN MSG_TOO_LARGE
  ELSE IF ~hasAcceptedExt(toLowerCase(file[1].name)) THEN MSG_BAD_FORMAT
  ELSE ""

\* mutant: the size rule left out
validate_SizeUnchecked(file) ==
  IF file = None THEN MSG_NO_FILE
  ELSE IF ~hasAcceptedExt(toLowerCase(file[1].name)) THEN MSG_BAD_FORMAT
  ELSE ""

\* file is File | null
validate(file) ==
  IF file = None THEN MSG_NO_FILE
  ELSE LET lower == toLowerCase(file[1].name) IN
       IF ~hasAcceptedExt(lower) THEN MSG_BAD_FORMAT
       ELSE IF file[1].size > MAX_BYTES THEN MSG_TOO_LARGE
       ELSE ""

(***************************************************************************)
(* Candidate files.                                                        *)
(***************************************************************************)
StemChars == {"a", ".", "P"}
Stems == UNION {[1..n -> StemChars] : n \in 0..MaxStem}

ExtPool ==
  { <<".", "p", "d", "f">>, <<".", "P", "D", "F">>, <<".", "P", "d", "f">>,
    <<".", "d", "o", "c", "x">>, <<".", "D", "O", "C", "X">>,
    <<".", "d", "o", "c">>, <<".", "t", "x", "t">>,
    <<"p", "d", "f">>, <<".", "p", "d", "f", "x">>,
    <<".", "p", "d", "f", ".", "t", "x", "t">>, <<>> }

Names == {st \o e : st \in Stems, e \in ExtPool}

Sizes == {0} \cup ((MAX_BYTES - SizeSlack)..(MAX_BYTES + SizeSlack))

CandidateFiles == [name : Names, size : Sizes]

\* the files the user picks in the orchestration model
UIFiles ==
  { [name |-> <<"a", ".", "p", "d", "f">>, size |-> 0],
    [name |-> <<"a", ".", "D", "O", "C", "X">>, size |-> MAX_BYTES],
    [name |-> <<"a", ".", "t", "x", "t">>, size |-> MAX_BYTES + 1] }

(***************************************************************************)
(* What the remote collaborator can answer.                                *)
(* An upload response carries ok, ready?, txtPath?, message? (docID and    *)
(* storeAs are never read by the component and are left out).  A failed    *)
(* call carries e.response.data.detail or nothing.                         *)
(***************************************************************************)
TxtPaths == {None, Some(""), Some("r.txt"), Some("p.txt")}

UploadFlags ==
  { [ok |-> TRUE,  ready |-> Some(TRUE),  message |-> None],
    [ok |-> FALSE, ready |-> None,        message |-> Some("converting")] }

UploadResponses ==
  { [ok |-> fl.ok, ready |-> fl.ready, txtPath |-> t, message |-> fl.message] :
      fl \in UploadFlags, t \in TxtPaths }

NoUpload == [ok |-> FALSE, ready |-> None, txtPath |-> None, message |-> None]

(***************************************************************************)
(* AnalyzeResponse: every field is optional.  The legacy group is          *)
(* rfpSummary, matchRate, radar, feedback, decision; the new group is      *)
(* metrics, metricsScores, metricsTotal10, similarity, guideReview         *)
(* (rfpId, proposalId and ivi are never read and are left out).            *)
(***************************************************************************)
MetricKeys == <<"CP", "RI", "FP", "ETS", "IO", "RM">>
KeySet == {MetricKeys[i] : i \in 1..Len(MetricKeys)}

\* the response with no field at all: {}
NoEval ==
  [rfpSummary |-> None, matchRate |-> None, radar |-> None, feedback |-> None,
   decision |-> None, metrics |-> None, metricsScores |-> None,
   metricsTotal10 |-> None, similarity |-> None, guideReview |-> None]

\* metricsScores: a score per key (a key the payload leaves out is absent)
ExampleScores ==
  [k \in KeySet |->
     CASE k = "CP" -> Some(8) [] k = "RI" -> Some(7) [] k = "FP" -> Some(6)
       [] k = "ETS" -> Some(9) [] k = "IO" -> Some(5) [] k = "RM" -> Some(7)]

PartialScores == [ExampleScores EXCEPT !["CP"] = None, !["RM"] = Some(0)]

LegacyRadar ==
  << [axis |-> "planning", value |-> 3], [axis |-> "risk", value |-> 10] >>

\* what the evaluation answers in the orchestration model: a legacy
\* response, a six-metric response, and an empty object
EvalResponses ==
  { [NoEval EXCEPT !.rfpSummary = Some("summary"), !.matchRate = Some(70),
                   !.radar = Some(LegacyRadar), !.decision = Some("REWRITE")],
    [NoEval EXCEPT !.metricsScores = Some(ExampleScores),
                   !.metricsTotal10 = Some(7)],
    NoEval }

\* the detail field of an error body: absent, empty, or a text
Details == {None, Some(""), Some("server detail")}

FulfilledUploads ==
  { [status |-> "fulfilled", detail |-> None, up |-> u, ev |-> NoEval] :
      u \in UploadResponses }

FulfilledEvals ==
  { [status |-> "fulfilled", detail |-> None, up |-> NoUpload, ev |-> e] :
      e \in EvalResponses }

\* a rejected call: no response at all (network error), or an error response
Rejections ==
  { [status |-> "network_error", detail |-> None, up |-> NoUpload, ev |-> NoEval] }
  \cup
  { [status |-> "http_error", detail |-> d, up |-> NoUpload, ev |-> NoEval] :
      d \in Details }

(***************************************************************************)
(* Pieces of uploadOne and onProcess.                                      *)
(***************************************************************************)
\* mutant: the start button looks at the RFP slot only
canProcess_OnlyRfp == rfp # None /\ ~isProcessing

\* mutant: the start button ignores the busy flag
canProcess_NoBusyCheck == rfp # None /\ proposal # None

canProcess == rfp # None /\ proposal # None /\ ~isProcessing

\* Math.round(loaded * 100 / total), total > 0
RoundPct(loaded, total) == (2 * loaded * 100 + total) \div (2 * total)

\* mutant: each upload weighs 50 points instead of 40
ProgressValue_HalfWeight(progressOffset, loaded, total) ==
  progressOffset + ((RoundPct(loaded, total) * 5) \div 10)

\* mutant: the offset of the upload is dropped
ProgressValue_NoOffset(progressOffset, loaded, total) ==
  (RoundPct(loaded, total) * 4) \div 10

\* progressOffset + Math.floor(pct * 0.4)
ProgressValue(progressOffset, loaded, total) ==
  progressOffset + ((RoundPct(loaded, total) * 4) \div 10)

\* the multipart request of uploadOne
UploadRequest(id, file, docType) ==
  [run |-> id, url |-> "/upload", docType |-> docType, file |-> Some(file),
   rfpPath |-> None, proposalPath |-> None, guidePath |-> ""]

\* mutant: the two converted-text references swapped
EvaluateRequest_Swapped(id, rfpUp, propUp) ==
  [run |-> id, url |-> "/evaluate/instant", docType |-> "", file |-> None,
   rfpPath |-> propUp.txtPath, proposalPath |-> rfpUp.txtPath,
   guidePath |-> GUIDE_PATH]

\* the JSON request of the evaluation (an undefined field is left out)
EvaluateRequest(id, rfpUp, propUp) ==
  [run |-> id, url |-> "/evaluate/instant", docType |-> "", file |-> None,
   rfpPath |-> rfpUp.txtPath, proposalPath |-> propUp.txtPath,
   guidePath |-> GUIDE_PATH]

\* mutant: only undefined counts as missing (x === undefined)
Falsy_OnlyUndefined(opt) == opt = None

\* !x for x : string | undefined
Falsy(opt) == opt = None \/ opt[1] = ""

\* mutant: only the proposal's reference is looked at
TxtPathMissing_OnlyProposal(rfpUp, propUp) == Falsy(propUp.txtPath)

\* !rfpUp.txtPath || !propUp.txtPath
TxtPathMissing(rfpUp, propUp) == Falsy(rfpUp.txtPath) \/ Falsy(propUp.txtPath)

\* mutant: an error response resolves the promise (validateStatus lets it pass)
IsFulfilled_Always(reply) == TRUE

\* whether the awaited promise is fulfilled (otherwise the await throws)
IsFulfilled(reply) == reply.status = "fulfilled"

\* e?.response?.data?.detail ?? generic
CatchMessage(reply) ==
  IF reply.status = "http_error" /\ reply.detail # None
  THEN reply.detail[1]
  ELSE MSG_GENERIC_ERROR

\* mutant: the cleanup is missing
FinallyIsProcessing_Kept == isProcessing

\* finally { setIsProcessing(false) }
FinallyIsProcessing == FALSE

\* The frame of one execution of onProcess suspended at an await: the files
\* captured by the closure, the results so far, the requests it has issued,
\* and the pending call (its progressOffset, its transport, its answer).
Frame(id, pc, f1, f2, offset, total, rfpUp, propUp, requests) ==
  [id |-> id, pc |-> pc, rfp |-> f1, proposal |-> f2, offset |-> offset,
   loaded |-> 0, total |-> total, reply |-> None,
   rfpUp |-> rfpUp, propUp |-> propUp, sent |-> requests]

\* evt.total of the progress events of one upload: undefined (0 here) when the
\* length is not computable, else the byte count of the request body
Totals == {0, MaxTotal}

(***************************************************************************)
(* Initial state: the useState initial values; no run, nothing sent.       *)
(***************************************************************************)
Init ==
  /\ rfp = None /\ proposal = None
  /\ errRfp = "" /\ errProp = ""
  /\ progress = 0 /\ isProcessing = FALSE /\ message = "" /\ result = None
  /\ runs = {} /\ started = 0
  /\ vFile = None /\ vOut = "unchecked"
  /\ data = NoEval /\ view = None

(***************************************************************************)
(* File selection and removal.                                             *)
(***************************************************************************)
Selections == {None} \cup {Some(f) : f \in UIFiles}

\* mutant: a rejected file leaves the file of the slot in place
onSelectRfp_KeepsFile(f) ==
  /\ IF f = None THEN errRfp' = "" /\ rfp' = None
     ELSE LET v == validate(f) IN
          IF v # "" THEN errRfp' = v /\ rfp' = rfp
          ELSE errRfp' = "" /\ rfp' = f
  /\ UNCHANGED <<proposal, errProp, progress, isProcessing, message, result,
                 runs, started, vFile, vOut, data, view>>

\* mutant: a selection also clears the status message
onSelectRfp_ClearsMessage(f) ==
  /\ IF f = None THEN errRfp' = "" /\ rfp' = None
     ELSE LET v == validate(f) IN
          IF v # "" THEN errRfp' = v /\ rfp' = None
          ELSE errRfp' = "" /\ rfp' = f
  /\ message' = ""
  /\ UNCHANGED <<proposal, errProp, progress, isProcessing, result,
                 runs, started, vFile, vOut, data, view>>

onSelectRfp(f) ==
  /\ IF f = None THEN errRfp' = "" /\ rfp' = None
     ELSE LET v == validate(f) IN
          IF v # "" THEN errRfp' = v /\ rfp' = None
          ELSE errRfp' = "" /\ rfp' = f
  /\ UNCHANGED <<proposal, errProp, progress, isProcessing, message, result,
                 runs, started, vFile, vOut, data, view>>

onSelectProp(f) ==
  /\ IF f = None THEN errProp' = "" /\ proposal' = None
     ELSE LET v == validate(f) IN
          IF v # "" THEN errProp' = v /\ proposal' = None
          ELSE errProp' = "" /\ proposal' = f
  /\ UNCHANGED <<rfp, errRfp, progress, isProcessing, message, result,
                 runs, started, vFile, vOut, data, view>>

SelectRfp == \E f \in Selections : onSelectRfp(f)
SelectProp == \E f \in Selections : onSelectProp(f)

(***************************************************************************)
(* onProcess up to its first await: the click on the start button.         *)
(* The button is disabled unless canProcess.                               *)
(***************************************************************************)
\* mutant: the result of the previous run is not cleared
onProcess_KeepsResult ==
  /\ canProcess
  /\ started < MaxRuns
  /\ ~(rfp = None \/ proposal = None)
  /\ message' = ""
  /\ isProcessing' = TRUE
  /\ progress' = 0
  /\ started' = started + 1
  /\ \E t \in Totals :
       runs' = runs \cup {Frame(started + 1, "upload1", rfp[1], proposal[1],
                                RFP_OFFSET, t, None, None,
                                <<UploadRequest(started + 1, rfp[1], "RFP")>>)}
  /\ UNCHANGED <<rfp, proposal, errRfp, errProp, result, vFile, vOut, data, view>>

onProcess ==
  /\ canProcess
  /\ started < MaxRuns
  /\ ~(rfp = None \/ proposal = None)
  /\ result' = None
  /\ message' = ""
  /\ isProcessing' = TRUE
  /\ progress' = 0
  /\ started' = started + 1
  /\ \E t \in Totals :
       runs' = runs \cup {Frame(started + 1, "upload1", rfp[1], proposal[1],
                                RFP_OFFSET, t, None, None,
                                <<UploadRequest(started + 1, rfp[1], "RFP")>>)}
  /\ UNCHANGED <<rfp, proposal, errRfp, errProp, vFile, vOut, data, view>>

(***************************************************************************)
(* The transport: progress events of a pending upload, and the answer.     *)
(***************************************************************************)
onUploadProgress(r) ==
  /\ r.pc \in {"upload1", "upload2"}
  /\ r.reply = None
  /\ IF r.total = 0
     THEN \* evt.total is undefined: the handler returns at once
          UNCHANGED <<runs, progress>>
     ELSE \E l \in r.loaded..r.total :
            /\ runs' = (runs \ {r}) \cup {[r EXCEPT !.loaded = l]}
            /\ progress' = ProgressValue(r.offset, l, r.total)
  /\ UNCHANGED <<rfp, proposal, errRfp, errProp, isProcessing, message, result,
                 started, vFile, vOut, data, view>>

ServerReply(r) ==
  /\ r.reply = None
  /\ \E a \in (IF r.pc = "evaluate" THEN FulfilledEvals ELSE FulfilledUploads)
               \cup Rejections :
       runs' = (runs \ {r}) \cup {[r EXCEPT !.reply = Some(a)]}
  /\ UNCHANGED <<rfp, proposal, errRfp, errProp, progress, isProcessing,
                 message, result, started, vFile, vOut, data, view>>

(***************************************************************************)
(* The continuations of onProcess after each await.                        *)
(***************************************************************************)
\* mutant: the proposal is read from the current state, not from the closure
RfpUploaded_ReadsState(r) ==
  /\ r.pc = "upload1"
  /\ r.reply # None
  /\ IsFulfilled(r.reply[1])
  /\ \E t \in Totals :
       runs' = (runs \ {r}) \cup
               {Frame(r.id, "upload2", r.rfp, r.proposal, PROPOSAL_OFFSET, t,
                      Some(r.reply[1].up), None,
                      Append(r.sent,
                             UploadRequest(r.id, Coalesce(proposal, r.proposal),
                                           "Proposal")))}
  /\ UNCHANGED <<rfp, proposal, errRfp, errProp, progress, isProcessing,
                 message, result, started, vFile, vOut, data, view>>

RfpUploaded(r) ==
  /\ r.pc = "upload1"
  /\ r.reply # None
  /\ IsFulfilled(r.reply[1])
  /\ \E t \in Totals :
       runs' = (runs \ {r}) \cup
               {Frame(r.id, "upload2", r.rfp, r.proposal, PROPOSAL_OFFSET, t,
                      Some(r.reply[1].up), None,
                      Append(r.sent, UploadRequest(r.id, r.proposal, "Proposal")))}
  /\ UNCHANGED <<rfp, proposal, errRfp, errProp, progress, isProcessing,
                 message, result, started, vFile, vOut, data, view>>

ProposalUploaded(r) ==
  /\ r.pc = "upload2"
  /\ r.reply # None
  /\ IsFulfilled(r.reply[1])
  /\ LET rfpUp == r.rfpUp[1]
         propUp == r.reply[1].up
     IN IF TxtPathMissing(rfpUp, propUp)
        THEN /\ message' = MSG_NOT_READY
             /\ isProcessing' = FinallyIsProcessing
             /\ runs' = runs \ {r}
             /\ UNCHANGED progress
        ELSE /\ progress' = EVAL_CHECKPOINT
             /\ message' = MSG_ANALYZING
             /\ runs' = (runs \ {r}) \cup
                        {Frame(r.id, "evaluate", r.rfp, r.proposal, r.offset,
                               0, r.rfpUp, Some(propUp),
                               Append(r.sent, EvaluateRequest(r.id, rfpUp, propUp)))}
             /\ UNCHANGED isProcessing
  /\ UNCHANGED <<rfp, proposal, errRfp, errProp, result, started, vFile, vOut, data, view>>

EvaluateResolved(r) ==
  /\ r.pc = "evaluate"
  /\ r.reply # None
  /\ IsFulfilled(r.reply[1])
  /\ result' = Some(r.reply[1].ev)
  /\ message' = MSG_DONE
  /\ progress' = FULL_PROGRESS
  /\ isProcessing' = FinallyIsProcessing
  /\ runs' = runs \ {r}
  /\ UNCHANGED <<rfp, proposal, errRfp, errProp, started, vFile, vOut, data, view>>

\* catch (e) { setMessage(...) } finally { ... }
CallFailed(r) ==
  /\ r.reply # None
  /\ ~IsFulfilled(r.reply[1])
  /\ message' = CatchMessage(r.reply[1])
  /\ isProcessing' = FinallyIsProcessing
  /\ runs' = runs \ {r}
  /\ UNCHANGED <<rfp, proposal, errRfp, errProp, progress, result,
                 started, vFile, vOut, data, view>>

Progress == \E r \in runs : onUploadProgress(r)
Reply == \E r \in runs : ServerReply(r)
Continue1 == \E r \in runs : RfpUploaded(r)
Continue2 == \E r \in runs : ProposalUploaded(r)
Continue3 == \E r \in runs : EvaluateResolved(r)
Caught == \E r \in runs : CallFailed(r)

Next ==
  \/ SelectRfp
  \/ SelectProp
  \/ onProcess
  \/ Progress
  \/ Reply
  \/ Continue1
  \/ Continue2
  \/ Continue3
  \/ Caught

Spec == Init /\ [][Next]_vars

(***************************************************************************)
(* Every pending network call is eventually answered, and the continuation *)
(* of an answered call runs (it is a microtask of the event loop).         *)
(***************************************************************************)
NetworkStep == Reply \/ Continue1 \/ Continue2 \/ Continue3 \/ Caught

FairSpec == Spec /\ WF_vars(NetworkStep)

(***************************************************************************)
(* validate on its own: a candidate file is drawn, validate is applied.    *)
(***************************************************************************)
InitValidate ==
  /\ rfp = None /\ proposal = None
  /\ errRfp = "" /\ errProp = ""
  /\ progress = 0 /\ isProcessing = FALSE /\ message = "" /\ result = None
  /\ runs = {} /\ started = 0
  /\ vFile \in {None} \cup {Some(f) : f \in CandidateFiles}
  /\ vOut = "unchecked"
  /\ data = NoEval /\ view = None

ApplyValidate ==
  /\ vOut = "unchecked"
  /\ vOut' = validate(vFile)
  /\ UNCHANGED <<rfp, proposal, errRfp, errProp, progress, isProcessing,
                 message, result, runs, started, vFile, data, view>>

NextValidate == ApplyValidate

SpecValidate == InitValidate /\ [][NextValidate]_vars

(***************************************************************************)
(* AnalyzeResult: what the component derives from the response it is       *)
(* given.                                                                  *)
(***************************************************************************)
MSG_NO_RESPONSE == "(no response)"
BADGE_GREEN == "bg-green-100 text-green-800"
BADGE_YELLOW == "bg-yellow-100 text-yellow-800"
BADGE_RED == "bg-red-100 text-red-800"
BADGE_GRAY == "bg-gray-100 text-gray-700"

\* scores is AnalyzeResponse["metricsScores"] | undefined
toRadarFromSix(scores) ==
  IF scores = None THEN <<>>
  ELSE [i \in 1..Len(MetricKeys) |->
          [axis |-> MetricKeys[i], value |-> Coalesce(scores[1][MetricKeys[i]], 0)]]

\* mutant: a legacy radar array in the payload wins over the six scores
radarData_LegacyFirst(d) ==
  IF d.radar # None THEN d.radar[1] ELSE toRadarFromSix(d.metricsScores)

\* six ? toRadarFromSix(six) : data.radar ?? []
radarData(d) ==
  IF d.metricsScores # None THEN toRadarFromSix(d.metricsScores)
  ELSE Coalesce(d.radar, <<>>)

\* mutant: an unknown decision falls through to the REWRITE colour
badge_DefaultRed(decision) ==
  IF decision = Some("SUBMIT") THEN BADGE_GREEN
  ELSE IF decision = Some("HOLD") THEN BADGE_YELLOW
  ELSE BADGE_RED

badge(decision) ==
  IF decision = Some("SUBMIT") THEN BADGE_GREEN
  ELSE IF decision = Some("HOLD") THEN BADGE_YELLOW
  ELSE IF decision = Some("REWRITE") THEN BADGE_RED
  ELSE BADGE_GRAY

\* data.metrics?.[k]?.feedback ?? data.metrics?.[k]?.raw ?? "(no response)"
metricFeedback(d, k) ==
  LET entry == IF d.metrics = None THEN None ELSE d.metrics[1][k]
      feedback == IF entry = None THEN None ELSE entry[1].feedback
      raw == IF entry = None THEN None ELSE entry[1].raw
  IN Coalesce(feedback, Coalesce(raw, MSG_NO_RESPONSE))

\* the derived values of one rendering; the six cards and their feedback
\* texts are rendered only when metricsScores is there
AnalyzeResult(d) ==
  [radarData |-> radarData(d),
   badge |-> badge(d.decision),
   feedbackText |-> IF d.metricsScores # None
                    THEN Some([k \in KeySet |-> metricFeedback(d, k)])
                    ELSE None]

(***************************************************************************)
(* The responses AnalyzeResult is rendered with.                           *)
(***************************************************************************)
Decisions == {None, Some("SUBMIT"), Some("HOLD"), Some("REWRITE"), Some("MAYBE")}
ScoresPool == {None, Some(ExampleScores), Some(PartialScores)}
RadarPool == {None, Some(<<>>), Some(LegacyRadar)}
Texts(t) == {None, Some(""), Some(t)}
MetricEntries ==
  {None} \cup {Some([feedback |-> f, raw |-> w]) :
                 f \in Texts("feedback"), w \in Texts("raw")}
MixedMetrics ==
  [k \in KeySet |->
     IF k = "CP" THEN Some([feedback |-> Some("feedback"), raw |-> None])
     ELSE IF k = "RI" THEN Some([feedback |-> None, raw |-> Some("raw")])
     ELSE None]
MetricsPool ==
  {None, Some(MixedMetrics)} \cup {Some([k \in KeySet |-> e]) : e \in MetricEntries}

RenderedResponses ==
  { [NoEval EXCEPT !.decision = dc, !.metricsScores = sc, !.radar = rd,
                   !.metrics = mt] :
      dc \in Decisions, sc \in ScoresPool, rd \in RadarPool, mt \in MetricsPool }

InitRender ==
  /\ rfp = None /\ proposal = None
  /\ errRfp = "" /\ errProp = ""
  /\ progress = 0 /\ isProcessing = FALSE /\ message = "" /\ result = None
  /\ runs = {} /\ started = 0
  /\ vFile = None /\ vOut = "unchecked"
  /\ data \in RenderedResponses /\ view = None

Render ==
  /\ view = None
  /\ view' = Some(AnalyzeResult(data))
  /\ UNCHANGED <<rfp, proposal, errRfp, errProp, progress, isProcessing,
                 message, result, runs, started, vFile, vOut, data>>

NextRender == Render

SpecRender == InitRender /\ [][NextRender]_vars

(***************************************************************************)
(* The two drop zones on their own, with files of every extension of the   *)
(* pool and every size around the limit.                                   *)
(***************************************************************************)
PickableFiles == [name : {<<"a">> \o e : e \in ExtPool}, size : Sizes]
Picks == {None} \cup {Some(f) : f \in PickableFiles}

PickRfp == \E f \in Picks : onSelectRfp(f)
PickProp == \E f \in Picks : onSelectProp(f)

NextSelect ==
  \/ PickRfp
  \/ PickProp

SpecSelect == Init /\ [][NextSelect]_vars

(***************************************************************************)
(* Vocabulary of the properties.                                           *)
(***************************************************************************)
IsUpload(q) == q.url = "/upload"
IsEvaluate(q) == q.url = "/evaluate/instant"
Uploads(r) == {i \in 1..Len(r.sent) : IsUpload(r.sent[i])}
Evaluations(r) == {i \in 1..Len(r.sent) : IsEvaluate(r.sent[i])}

\* the execution r of onProcess takes a step
Steps(r) == r \in runs /\ r \notin runs'
\* ... and that step is its last: it returns or its catch block has run
Ends(r) == Steps(r) /\ \A q \in runs' : q.id # r.id
\* the awaited call of r has been answered, with or without success
Answered(r) == r.reply # None
Resolved(r) == r.reply # None /\ r.reply[1].status = "fulfilled"
Rejected(r) == r.reply # None /\ r.reply[1].status # "fulfilled"
\* the transport of the pending upload of r has reported all its bytes
FullyTransferred(r) ==
  r.pc \in {"upload1", "upload2"} /\ r.total > 0 /\ r.loaded = r.total

HasValidFile(slot) == slot # None /\ validate(slot) = ""

(***************************************************************************)
(* C1: at most one execution of onProcess is in flight at any time; no     *)
(* sequence of selections, removals, clicks and network completions starts *)
(* a second one while an earlier one is unfinished.                        *)
(***************************************************************************)
C1_OneRunInFlight == Cardinality(runs) <= 1

\* a run is in flight while both slots hold a file and a further run is allowed
C1_Witness ==
  /\ Cardinality(runs) = 1
  /\ rfp # None /\ proposal # None
  /\ started < MaxRuns
  /\ isProcessing

(***************************************************************************)
(* C2, as claimed: whenever a run ends and one of the upload responses it  *)
(* has received has txtPath absent, the status message is the retry-soon   *)
(* advisory and the run has sent no evaluation request.                    *)
(***************************************************************************)
C2_AsClaimed ==
  [][\A r \in runs :
       ( /\ Ends(r)
         /\ \/ (r.rfpUp # None /\ r.rfpUp[1].txtPath = None)
            \/ (r.pc = "upload2" /\ Resolved(r) /\ r.reply[1].up.txtPath = None) )
       => (message' = MSG_NOT_READY /\ Evaluations(r) = {})]_vars

(***************************************************************************)
(* C2, amended: when both uploads of a run have returned a response and    *)
(* either response has txtPath absent, the run ends there, without a       *)
(* result, with the retry-soon advisory as the status message; and a run   *)
(* that has received an upload response with txtPath absent never sends    *)
(* an evaluation request.                                                  *)
(***************************************************************************)
C2_TxtPathAbsent ==
  [][\A r \in runs :
       /\ ( /\ Steps(r)
            /\ r.pc = "upload2" /\ Resolved(r)
            /\ (r.rfpUp[1].txtPath = None \/ r.reply[1].up.txtPath = None) )
          => ( /\ Ends(r)
               /\ message' = MSG_NOT_READY
               /\ result' = None
               /\ Evaluations(r) = {} )
       /\ (r.rfpUp # None /\ r.rfpUp[1].txtPath = None)
          => \A q \in runs' : q.id = r.id => Evaluations(q) = {}]_vars

\* a run has ended on the guard
C2_Witness ==
  /\ runs = {}
  /\ started > 0
  /\ message = MSG_NOT_READY
  /\ result = None

(***************************************************************************)
(* C3: the requests of a run are issued in order and one after the other:  *)
(* the RFP upload (offset 0) first, the proposal upload (offset 40) only   *)
(* once the RFP upload has succeeded, the evaluation only once both        *)
(* uploads have succeeded; a run whose RFP upload fails issues nothing     *)
(* more.                                                                   *)
(***************************************************************************)
C3_InOrder(r) ==
  /\ r.pc = "upload1" =>
       /\ Len(r.sent) = 1
       /\ IsUpload(r.sent[1]) /\ r.sent[1].docType = "RFP"
       /\ r.offset = 0
       /\ r.rfpUp = None /\ r.propUp = None
  /\ r.pc = "upload2" =>
       /\ Len(r.sent) = 2
       /\ IsUpload(r.sent[1]) /\ r.sent[1].docType = "RFP"
       /\ IsUpload(r.sent[2]) /\ r.sent[2].docType = "Proposal"
       /\ r.offset = 40
       /\ r.rfpUp # None /\ r.propUp = None
  /\ r.pc = "evaluate" =>
       /\ Len(r.sent) = 3
       /\ IsUpload(r.sent[1]) /\ r.sent[1].docType = "RFP"
       /\ IsUpload(r.sent[2]) /\ r.sent[2].docType = "Proposal"
       /\ IsEvaluate(r.sent[3])
       /\ r.rfpUp # None /\ r.propUp # None

C3_Sequential ==
  /\ [](\A r \in runs : C3_InOrder(r))
  /\ [][\A r \in runs :
          \* a request is issued only by the continuation of a call that succeeded
          /\ (\E q \in runs' : q.id = r.id /\ Len(q.sent) > Len(r.sent))
             => Resolved(r)
          \* the run of a failed RFP upload ends without another request
          /\ (Steps(r) /\ r.pc = "upload1" /\ Rejected(r)) => Ends(r)]_vars

\* the proposal upload is pending after the RFP upload has returned
C3_Witness ==
  \E r \in runs :
    r.pc = "upload2" /\ Len(r.sent) = 2 /\ r.rfpUp # None /\ r.offset = 40

(***************************************************************************)
(* C4: a run issues at most two upload requests and at most one evaluation *)
(* request, and the evaluation request carries the txtPath of the run's    *)
(* RFP upload as rfpPath, the txtPath of its proposal upload as            *)
(* proposalPath, and the fixed guide path.                                 *)
(***************************************************************************)
C4_OneEvaluation ==
  \A r \in runs :
    /\ Cardinality(Uploads(r)) <= 2
    /\ Cardinality(Evaluations(r)) <= 1
    /\ \A i \in Evaluations(r) :
         /\ r.rfpUp # None /\ r.propUp # None
         /\ r.sent[i].rfpPath = r.rfpUp[1].txtPath
         /\ r.sent[i].proposalPath = r.propUp[1].txtPath
         /\ r.sent[i].rfpPath # None /\ r.sent[i].proposalPath # None
         /\ r.sent[i].guidePath = "guide/guide_reference.txt"

\* an evaluation is pending whose two references differ
C4_Witness ==
  \E r \in runs :
    /\ r.pc = "evaluate"
    /\ Evaluations(r) # {}
    /\ r.rfpUp[1].txtPath # r.propUp[1].txtPath

(***************************************************************************)
(* C5: the combined progress is always an integer in 0..100, and within a  *)
(* run (on every step that does not start a run) it never decreases.       *)
(***************************************************************************)
C5_ProgressMonotone ==
  [][ /\ progress' \in 0..100
      /\ started' = started => progress' >= progress ]_vars

\* the proposal upload has reported half of its bytes
C5_Witness ==
  \E r \in runs : r.pc = "upload2" /\ r.loaded > 0 /\ r.loaded < r.total
                   /\ progress > 40 /\ progress < 80

(***************************************************************************)
(* C6: the combined progress is 40 once the RFP upload has transferred all *)
(* its bytes and when it then completes, 80 once the proposal upload has   *)
(* transferred all its bytes and when it then completes, and 100 when the  *)
(* evaluation has resolved.                                                *)
(***************************************************************************)
C6_Checkpoints ==
  [][ /\ \A r \in runs' :
           FullyTransferred(r) => progress' = (IF r.pc = "upload1" THEN 40 ELSE 80)
      /\ \A r \in runs :
           /\ (Steps(r) /\ FullyTransferred(r) /\ Resolved(r))
              => progress' = (IF r.pc = "upload1" THEN 40 ELSE 80)
           /\ (Steps(r) /\ r.pc = "evaluate" /\ Resolved(r))
              => progress' = 100 ]_vars

\* the proposal upload has transferred all its bytes
C6_Witness ==
  \E r \in runs : r.pc = "upload2" /\ FullyTransferred(r) /\ progress = 80

(***************************************************************************)
(* C7: provided every pending network call is answered, every started run  *)
(* ends and leaves isProcessing = false, on each of its exit paths.        *)
(***************************************************************************)
C7_FlagCleared == (runs # {}) ~> (runs = {} /\ ~isProcessing)

\* a run has ended in the catch block and the flag is clear
C7_Witness ==
  /\ runs = {}
  /\ started > 0
  /\ ~isProcessing
  /\ message = MSG_GENERIC_ERROR

(***************************************************************************)
(* C8, as claimed: when a network call of a run fails, the status message  *)
(* becomes the server's detail if there is one and the generic failure     *)
(* message otherwise, and is never empty; progress keeps its value, no     *)
(* result is stored and the processing flag is cleared.                    *)
(***************************************************************************)
C8_AsClaimed ==
  [][\A r \in runs :
       (Steps(r) /\ Rejected(r))
       => /\ Ends(r)
          /\ message' # ""
          /\ message' = (IF r.reply[1].detail # None /\ r.reply[1].detail[1] # ""
                         THEN r.reply[1].detail[1]
                         ELSE MSG_GENERIC_ERROR)
          /\ progress' = progress
          /\ result' = None
          /\ ~isProcessing']_vars

(***************************************************************************)
(* C9: canProcess is true exactly when a validated RFP file is selected, a *)
(* validated proposal file is selected and no run is in flight.            *)
(***************************************************************************)
C9_CanProcessIff ==
  canProcess <=> (HasValidFile(rfp) /\ HasValidFile(proposal) /\ runs = {})

\* both files are selected and a run is in flight: the button is disabled
C9_Witness ==
  /\ HasValidFile(rfp) /\ HasValidFile(proposal)
  /\ runs # {}
  /\ ~canProcess

(***************************************************************************)
(* C10, as claimed: every file larger than 20*1024*1024 bytes gets the     *)
(* size rejection from validate, whatever its extension.                   *)
(***************************************************************************)
C10_AsClaimed ==
  (vOut # "unchecked" /\ vFile # None /\ vFile[1].size > 20 * 1024 * 1024)
  => vOut = MSG_TOO_LARGE

(***************************************************************************)
(* C10, amended: every file larger than 20*1024*1024 bytes whose           *)
(* lower-cased name ends in .pdf or .docx gets the size rejection from     *)
(* validate.                                                               *)
(***************************************************************************)
C10_SizeRejected ==
  ( /\ vOut # "unchecked" /\ vFile # None
    /\ vFile[1].size > 20 * 1024 * 1024
    /\ hasAcceptedExt(toLowerCase(vFile[1].name)) )
  => vOut = MSG_TOO_LARGE

\* validate has rejected an oversized .PDF for its size
C10_Witness ==
  /\ vOut = MSG_TOO_LARGE
  /\ vFile # None
  /\ vFile[1].size > 20 * 1024 * 1024
  /\ vFile[1].name # toLowerCase(vFile[1].name)

(***************************************************************************)
(* C11: validate applies its rules in the order missing file, extension,   *)
(* size, and the first failing rule decides: a present file whose          *)
(* lower-cased name does not end in .pdf or .docx gets the format          *)
(* rejection whatever its size, and a file is accepted exactly when its    *)
(* lower-cased name ends in .pdf or .docx and its size is at most 20 MiB.  *)
(***************************************************************************)
\* the last n characters of a name, lower-cased
LowerTail(name, n) ==
  IF Len(name) < n THEN <<>>
  ELSE [i \in 1..n |-> LowerChar(name[Len(name) - n + i])]

EndsInPdfOrDocx(name) ==
  \/ LowerTail(name, 4) = <<".", "p", "d", "f">>
  \/ LowerTail(name, 5) = <<".", "d", "o", "c", "x">>

C11_RuleOrder ==
  vOut # "unchecked" =>
    /\ vFile = None => vOut = MSG_NO_FILE
    /\ (vFile # None /\ ~EndsInPdfOrDocx(vFile[1].name)) => vOut = MSG_BAD_FORMAT
    /\ (vFile # None /\ EndsInPdfOrDocx(vFile[1].name)
          /\ vFile[1].size > 20 * 1024 * 1024) => vOut = MSG_TOO_LARGE
    /\ vOut = "" <=> ( /\ vFile # None
                       /\ EndsInPdfOrDocx(vFile[1].name)
                       /\ vFile[1].size <= 20 * 1024 * 1024 )

\* an oversized file of another format is rejected for its format
C11_Witness ==
  /\ vOut = MSG_BAD_FORMAT
  /\ vFile # None
  /\ vFile[1].size > 20 * 1024 * 1024

(***************************************************************************)
(* C12: with six-metric scores in the response the radar series is exactly *)
(* six points in the order CP, RI, FP, ETS, IO, RM, each with the score of *)
(* its metric, whatever legacy radar array the payload also holds; without *)
(* six-metric scores it is the legacy radar array as it came.              *)
(***************************************************************************)
C12_RadarSeries ==
  view # None =>
    LET series == view[1].radarData IN
    /\ data.metricsScores # None =>
         /\ Len(series) = 6
         /\ <<series[1].axis, series[2].axis, series[3].axis,
              series[4].axis, series[5].axis, series[6].axis>>
              = <<"CP", "RI", "FP", "ETS", "IO", "RM">>
         /\ \A i \in 1..6 :
              data.metricsScores[1][series[i].axis] # None
              => series[i].value = data.metricsScores[1][series[i].axis][1]
    /\ (data.metricsScores = None /\ data.radar # None) => series = data.radar[1]
    /\ (data.metricsScores = None /\ data.radar = None) => series = <<>>

\* a rendered response that holds six scores and a legacy radar array
C12_Witness ==
  /\ view # None
  /\ data.metricsScores # None
  /\ data.radar # None /\ data.radar[1] # <<>>
  /\ Len(view[1].radarData) = 6

(***************************************************************************)
(* C13, as claimed: the feedback text shown for each of the six metrics is *)
(* the metric's feedback if present, else its raw text if present, else    *)
(* the "no response" placeholder, and it is never the empty string.        *)
(***************************************************************************)
C13_AsClaimed ==
  (view # None /\ view[1].feedbackText # None) =>
    \A k \in KeySet :
      LET shown == view[1].feedbackText[1][k]
          entry == IF data.metrics = None THEN None ELSE data.metrics[1][k]
      IN /\ shown # ""
         /\ (entry # None /\ entry[1].feedback # None) => shown = entry[1].feedback[1]
         /\ (entry # None /\ entry[1].feedback = None /\ entry[1].raw # None)
            => shown = entry[1].raw[1]
         /\ (entry = None \/ (entry[1].feedback = None /\ entry[1].raw = None))
            => shown = "(no response)"

(***************************************************************************)
(* C14: the badge class is a pure lookup on the decision: SUBMIT green,    *)
(* HOLD yellow, REWRITE red, and gray for any other or absent value.       *)
(***************************************************************************)
C14_BadgeLookup ==
  view # None =>
    /\ data.decision = Some("SUBMIT") => view[1].badge = "bg-green-100 text-green-800"
    /\ data.decision = Some("HOLD") => view[1].badge = "bg-yellow-100 text-yellow-800"
    /\ data.decision = Some("REWRITE") => view[1].badge = "bg-red-100 text-red-800"
    /\ data.decision \notin {Some("SUBMIT"), Some("HOLD"), Some("REWRITE")}
       => view[1].badge = "bg-gray-100 text-gray-700"

\* a response with an unknown decision has been classified
C14_Witness ==
  /\ view # None
  /\ data.decision = Some("MAYBE")
  /\ view[1].badge = BADGE_GRAY

(***************************************************************************)
(* C15: the start of a run sets progress to 0 and clears the stored result *)
(* and the status message in the step that issues the first upload; while  *)
(* a run is in flight the stored result is null, so no result of an        *)
(* earlier run is displayed during a later one.                            *)
(***************************************************************************)
C15_ResetAtStart ==
  /\ [](runs # {} => result = None)
  /\ [][started' # started =>
          /\ progress' = 0 /\ result' = None /\ message' = ""
          /\ \A r \in runs' \ runs : r.pc = "upload1" /\ Len(r.sent) = 1]_vars

\* the second run is in flight
C15_Witness ==
  /\ started = 2
  /\ runs # {}
  /\ result = None
  /\ progress = 0

(***************************************************************************)
(* C16, as claimed: whenever a run has reached Done, the stored result has *)
(* a field of the legacy group or a field of the new-schema group.         *)
(***************************************************************************)
LegacyPopulated(d) ==
  \/ d.rfpSummary # None \/ d.matchRate # None \/ d.decision # None
  \/ d.feedback # None \/ d.radar # None

NewSchemaPopulated(d) ==
  \/ d.metrics # None \/ d.metricsScores # None \/ d.metricsTotal10 # None
  \/ d.similarity # None \/ d.guideReview # None

C16_AsClaimed ==
  (result # None /\ message = MSG_DONE)
  => (LegacyPopulated(result[1]) \/ NewSchemaPopulated(result[1]))

(***************************************************************************)
(* C17: a stored result implies progress = 100 and the 'analysis complete' *)
(* status message, also after later selections and removals of files.      *)
(***************************************************************************)
C17_ResultMeansDone ==
  result # None => (progress = 100 /\ message = MSG_DONE)

\* a result is stored and the RFP file has since been removed
C17_Witness ==
  /\ result # None
  /\ rfp = None
  /\ progress = 100

(***************************************************************************)
(* C18: each slot holds no file or a file validate accepts, and never a    *)
(* file together with an error; a selection or removal empties the error   *)
(* of its slot, a rejected file sets it and empties the slot, and the      *)
(* other slot is left as it was.                                           *)
(***************************************************************************)
Acceptable(f) ==
  f # None /\ EndsInPdfOrDocx(f[1].name) /\ f[1].size <= 20 * 1024 * 1024

SlotOk(file, err) ==
  /\ file # None => (Acceptable(file) /\ err = "")
  /\ err \in {"", MSG_BAD_FORMAT, MSG_TOO_LARGE}

\* the slot after f has been handed to its onSelect
SlotAfter(f, file, err) ==
  IF f = None THEN file = None /\ err = ""
  ELSE IF Acceptable(f) THEN file = f /\ err = ""
  ELSE file = None /\ err \in {MSG_BAD_FORMAT, MSG_TOO_LARGE}

C18_Slots ==
  /\ [](SlotOk(rfp, errRfp) /\ SlotOk(proposal, errProp))
  /\ [][ \/ /\ \E f \in Picks : SlotAfter(f, rfp', errRfp')
            /\ proposal' = proposal /\ errProp' = errProp
         \/ /\ \E f \in Picks : SlotAfter(f, proposal', errProp')
            /\ rfp' = rfp /\ errRfp' = errRfp ]_vars

\* a rejected file has emptied the RFP slot while the proposal slot holds a file
C18_Witness ==
  /\ rfp = None /\ errRfp = MSG_TOO_LARGE
  /\ proposal # None /\ errProp = ""

(***************************************************************************)
(* C19: once both uploads of a run have returned a response, the           *)
(* evaluation request is issued exactly when both responses carry a        *)
(* non-empty txtPath, whatever their ok, ready and message fields.         *)
(***************************************************************************)
NonEmpty(opt) == opt # None /\ opt[1] # ""

C19_GateOnTxtPath ==
  [][\A r \in runs :
       (Steps(r) /\ r.pc = "upload2" /\ Resolved(r))
       => ( (\E q \in runs' : q.id = r.id /\ q.pc = "evaluate" /\ Evaluations(q) # {})
            <=> (NonEmpty(r.rfpUp[1].txtPath) /\ NonEmpty(r.reply[1].up.txtPath)) )]_vars

\* the evaluation is pending although both responses say ok = false
C19_Witness ==
  \E r \in runs :
    /\ r.pc = "evaluate"
    /\ ~r.rfpUp[1].ok /\ r.rfpUp[1].ready = None
    /\ ~r.propUp[1].ok /\ r.propUp[1].message # None

(***************************************************************************)
(* C20: a selection or removal while a run is in flight changes the slots  *)
(* (and with them canProcess) and nothing of the run: its frame, its       *)
(* requests, progress, message and result stay as they are, and the run    *)
(* uploads the two files that were selected when it started.               *)
(***************************************************************************)
C20_RunUnaffected ==
  /\ [](\A r \in runs :
          /\ r.sent[1].file = Some(r.rfp)
          /\ Len(r.sent) >= 2 => r.sent[2].file = Some(r.proposal))
  /\ [][ /\ started' # started =>
              \A r \in runs' \ runs : Some(r.rfp) = rfp /\ Some(r.proposal) = proposal
         /\ ( /\ runs # {}
              /\ <<rfp, proposal, errRfp, errProp>>' # <<rfp, proposal, errRfp, errProp>> )
            => /\ runs' = runs
               /\ progress' = progress /\ message' = message /\ result' = result
               /\ isProcessing' = isProcessing /\ started' = started ]_vars

\* the proposal upload carries the file of the start although the slot has
\* been emptied since
C20_Witness ==
  \E r \in runs :
    /\ r.pc = "upload2"
    /\ proposal = None /\ rfp # Some(r.rfp)
    /\ r.sent[2].file = Some(r.proposal)

====
